---- MODULE Spec2Model ----
(***************************************************************************)
(* GhostMesh CLI (ghost_aweborne/cli.py): an append-only soul file (the    *)
(* Memory Log), a FAISS inner-product index over the embeddings of its     *)
(* records, the persisted index / id-map pair, and the REPL turn that      *)
(* retrieves, generates and appends.                                       *)
(*                                                                         *)
(* Texts are sequences of strings.  Python positions are 0-based; the      *)
(* sequences here are 1-based, so Python position i is element i + 1.      *)
(***************************************************************************)
EXTENDS Integers, Sequences, FiniteSets, TLC

\* ------------------------------------------------------------------ bounds
MaxLog == 3
MaxK == 3

\* --------------------------------------------------------- program constants
EmbedDim == 384
DummyDim == 1

\* ------------------------------------------------------------- input domains
UserInputs == {"hi", "yo", "exit", "QUIT"}
Replies == {"ok"}
GhostErrors == {"[Ghost Error] timeout"}

Lower(s) == IF s = "QUIT" THEN "quit" ELSE s

\* ------------------------------------------------------------ soul-file lines
ObjLine(t) == [kind |-> "obj", text |-> t]
NoTextLine == [kind |-> "notext", text |-> << >>]
RawLine(t) == [kind |-> "raw", text |-> t]
NonObjLine == [kind |-> "nonobj", text |-> << >>]
BlankLine == [kind |-> "blank", text |-> << >>]

\* json.dumps(entry, ensure_ascii=False) + "\n" for entry = {"text": t}
DumpEntry(t) == ObjLine(t)

\* the f-string of maybe_append_soul
EntryText(prompt, reply) == <<"Ghost said", reply, "in response to", prompt>>

InitialSouls ==
    { << >>,
      << ObjLine(<<"seed">>) >>,
      << ObjLine(<<"seed">>), BlankLine, RawLine(<<"plain">>) >>,
      << ObjLine(EntryText("HI", "ok")) >>,
      << NoTextLine >>,
      << NonObjLine >> }

\* ------------------------------------------------------------- _load_texts
Stripped(lines) == SelectSeq(lines, LAMBDA l : l.kind # "blank")

LoadRaises(lines) == \E i \in 1..Len(lines) : lines[i].kind = "nonobj"

\* the record is looked up under a key the writer does not use
ParseLine_WrongKey(l) ==
    CASE l.kind = "raw" -> l.text
      [] OTHER -> << >>

\* json.loads(line).get("text", "") with the JSONDecodeError fallback
ParseLine(l) ==
    CASE l.kind = "obj" -> l.text
      [] l.kind = "notext" -> << >>
      [] l.kind = "raw" -> l.text
      [] OTHER -> << >>

LoadTextsOf(lines) ==
    [i \in 1..Len(Stripped(lines)) |-> ParseLine(Stripped(lines)[i])]

\* ---------------------------------------------------------------- embedder
PromptAxis(t) ==
    IF t = << >> THEN 0
    ELSE IF t[Len(t)] \in {"hi", "HI", "seed"} THEN 1
    ELSE IF t[Len(t)] = "yo" THEN 2
    ELSE 3

ReplyAxis(t) ==
    IF Len(t) < 2 THEN 0
    ELSE IF t[2] \in GhostErrors THEN 1 ELSE 2

Embed(t) == <<PromptAxis(t), ReplyAxis(t)>>

EmbedBatch(texts) == [i \in 1..Len(texts) |-> Embed(texts[i])]

Score(q, v) == IF q[1] = v[1] THEN 2 + (IF q[2] = v[2] THEN 1 ELSE 0)
               ELSE (IF q[2] = v[2] THEN 1 ELSE 0)

\* ------------------------------------------------------------------- faiss
IndexFlatIP(d) == [d |-> d, xb |-> << >>]

\* the new vectors are put in front of the stored ones
IndexAdd_Front(idx, vecs) == [idx EXCEPT !.xb = vecs \o idx.xb]

IndexAdd(idx, vecs) == [idx EXCEPT !.xb = idx.xb \o vecs]

Min(a, b) == IF a < b THEN a ELSE b

\* index.search(q, k): k labels, best first, -1 where no neighbour exists;
\* the order among equal scores is left open
SearchLabels(idx, q, k) ==
    LET n == Len(idx.xb)
        m == Min(k, n)
        sc(p) == Score(q, idx.xb[p + 1])
    IN  { s \in [1..k -> (-1)..(n - 1)] :
            /\ \A i \in 1..k : (i <= m) <=> (s[i] >= 0)
            /\ \A i, j \in 1..m : i # j => s[i] # s[j]
            /\ \A i \in 1..m : \A j \in 1..m : i < j => sc(s[i]) >= sc(s[j])
            /\ \A p \in 0..(n - 1) :
                  (\A i \in 1..m : s[i] # p) =>
                      \A i \in 1..m : sc(s[i]) >= sc(p) }

\* Python list indexing, negative positions counted from the end
PyItem(seq, i) == IF i >= 0 THEN seq[i + 1] ELSE seq[Len(seq) + i + 1]

\* [memories[i] for i in I[0] if i < len(memories)]
KeepLabel(i, mems) == i < Len(mems)

RECURSIVE Resolve(_, _, _)
Resolve(labels, mems, from) ==
    IF from > Len(labels) THEN << >>
    ELSE IF KeepLabel(labels[from], mems)
         THEN <<PyItem(mems, labels[from])>> \o Resolve(labels, mems, from + 1)
         ELSE Resolve(labels, mems, from + 1)

\* ------------------------------------------------------------------- state
VARIABLES
    soulFile,       \* SOUL_FILE: [exists, lines]
    indexFile,      \* INDEX_FILE: [state, d, xb], state in absent/ok/corrupt
    idmapFile,      \* IDMAP_FILE: [state, ids]
    pc,             \* position of the process
    topk,           \* the k of the retrieve_memories call that produced ctx
    index,          \* the live faiss index [d, xb]
    memories,       \* the in-memory text sequence
    user,           \* the input of the current turn
    labels,         \* I[0] of the index.search call, << >> if none was made
    ctx,            \* the result of retrieve_memories
    reply,          \* the reply of the current turn
    vec,            \* the embedding computed by maybe_append_soul
    err,            \* the exception that reached the caller, "" if none
    path,           \* how the last startup obtained the index
    startupEmbeds,  \* embedder.encode calls made by the last startup
    halt,           \* history: the live state when the process last stopped
    dirty,          \* history: disk changed since the last completed startup
    deleted,        \* history: derived files deleted since the last stop
    appended        \* history: an append completed and no startup completed since

disk == <<soulFile, indexFile, idmapFile>>
live == <<index, memories>>
turn == <<user, topk, labels, ctx, reply, vec>>
boot == <<path, startupEmbeds>>
hist == <<halt, dirty, deleted, appended>>
vars == <<soulFile, indexFile, idmapFile, pc, topk, index, memories, user,
          labels, ctx, reply, vec, err, path, startupEmbeds, halt, dirty,
          deleted, appended>>

NoFile == [state |-> "absent", d |-> 0, xb |-> << >>]
NoIdMap == [state |-> "absent", ids |-> << >>]
NoIndex == [d |-> 0, xb |-> << >>]
NoVec == <<0, 0>>
NoHalt == [how |-> "none", index |-> NoIndex, mems |-> << >>, rec |-> << >>]

\* the record being appended has reached the Log but not yet the index
InAppendWindow == \/ pc \in {"logged", "embedded"}
                  \/ (pc = "raised_append" /\ err # "OSError")

HaltRecord(how) ==
    [how |-> how, index |-> index, mems |-> memories,
     rec |-> IF how = "append_window" THEN EntryText(user, reply) ELSE << >>]

Stopped(how) ==
    /\ pc' = "off"
    /\ halt' = HaltRecord(how)
    /\ deleted' = FALSE
    /\ index' = NoIndex
    /\ memories' = << >>
    /\ user' = ""
    /\ labels' = << >>
    /\ ctx' = << >>
    /\ reply' = ""
    /\ vec' = NoVec
    /\ err' = ""
    /\ topk' = 0
    /\ path' = "none"
    /\ startupEmbeds' = 0

TypeOK ==
    /\ soulFile.exists \in BOOLEAN
    /\ Len(soulFile.lines) <= MaxLog
    /\ indexFile.state \in {"absent", "ok", "corrupt"}
    /\ idmapFile.state \in {"absent", "ok", "corrupt"}
    /\ pc \in {"off", "rebuild", "built", "index_written", "started", "ready",
              "retrieved", "replied", "logged", "embedded", "added",
              "raised_startup", "raised_turn", "raised_append"}
    /\ topk \in 0..MaxK
    /\ path \in {"none", "reuse", "rebuild"}
    /\ startupEmbeds \in 0..1
    /\ dirty \in BOOLEAN
    /\ deleted \in BOOLEAN
    /\ appended \in BOOLEAN

InitCommon ==
    /\ pc = "off"
    /\ topk = 0
    /\ index = NoIndex
    /\ memories = << >>
    /\ user = ""
    /\ labels = << >>
    /\ ctx = << >>
    /\ reply = ""
    /\ vec = NoVec
    /\ err = ""
    /\ path = "none"
    /\ startupEmbeds = 0
    /\ halt = NoHalt
    /\ dirty = TRUE
    /\ deleted = FALSE
    /\ appended = FALSE

InitSoul ==
    \/ soulFile = [exists |-> FALSE, lines |-> << >>]
    \/ \E ls \in InitialSouls : soulFile = [exists |-> TRUE, lines |-> ls]

\* a fresh memory directory: no index file and no id map yet
Init ==
    /\ InitCommon
    /\ InitSoul
    /\ indexFile = NoFile
    /\ idmapFile = NoIdMap

\* ----------------------------------------------------------------- startup
\* the id map may be shorter than the Log
Reusable_AtMost(texts) ==
    /\ indexFile.state # "absent"
    /\ idmapFile.state = "ok"
    /\ Len(idmapFile.ids) <= Len(texts)

\* the id map may be longer than the Log
Reusable_AtLeast(texts) ==
    /\ indexFile.state # "absent"
    /\ idmapFile.state = "ok"
    /\ Len(idmapFile.ids) >= Len(texts)

\* the reuse test of _load_or_build_index
Reusable(texts) ==
    /\ indexFile.state # "absent"
    /\ idmapFile.state # "absent"
    /\ idmapFile.state = "ok"
    /\ Len(idmapFile.ids) = Len(texts)

\* json.load(IDMAP_FILE.open()) is evaluated and raises
IdMapRaises == indexFile.state # "absent" /\ idmapFile.state = "corrupt"

\* faiss.read_index is evaluated and raises
ReadIndexRaises(texts) == Reusable(texts) /\ indexFile.state = "corrupt"

Booted ==
    /\ topk' = 0
    /\ user' = ""
    /\ labels' = << >>
    /\ ctx' = << >>
    /\ reply' = ""
    /\ vec' = NoVec
    /\ UNCHANGED <<disk, hist>>

\* module import: _load_texts raises on a line whose JSON is not an object
StartLoadRaises ==
    /\ pc = "off"
    /\ soulFile.exists /\ LoadRaises(soulFile.lines)
    /\ Booted
    /\ pc' = "raised_startup"
    /\ err' = "AttributeError"
    /\ path' = "none"
    /\ startupEmbeds' = 0
    /\ UNCHANGED live

\* module import: reading the id map or the index raises
StartReuseRaises ==
    /\ pc = "off"
    /\ ~(soulFile.exists /\ LoadRaises(soulFile.lines))
    /\ LET texts == LoadTextsOf(soulFile.lines)
       IN  /\ IdMapRaises \/ ReadIndexRaises(texts)
           /\ err' = IF IdMapRaises THEN "JSONDecodeError" ELSE "RuntimeError"
           /\ memories' = << >>
    /\ Booted
    /\ pc' = "raised_startup"
    /\ path' = "none"
    /\ startupEmbeds' = 0
    /\ index' = NoIndex

\* module import: the persisted index is read back and returned
StartReuse ==
    /\ pc = "off"
    /\ ~(soulFile.exists /\ LoadRaises(soulFile.lines))
    /\ LET texts == LoadTextsOf(soulFile.lines)
       IN  /\ ~IdMapRaises
           /\ Reusable(texts)
           /\ indexFile.state = "ok"
           /\ memories' = texts
    /\ Booted
    /\ index' = [d |-> indexFile.d, xb |-> indexFile.xb]
    /\ pc' = "started"
    /\ err' = ""
    /\ path' = "reuse"
    /\ startupEmbeds' = 0

\* module import: _rebuild_index is entered; with no texts it returns the
\* dummy index at once, otherwise the batch is embedded next
StartRebuild ==
    /\ pc = "off"
    /\ ~(soulFile.exists /\ LoadRaises(soulFile.lines))
    /\ LET texts == LoadTextsOf(soulFile.lines)
       IN  /\ ~IdMapRaises
           /\ ~Reusable(texts)
           /\ memories' = texts
           /\ pc' = IF texts = << >> THEN "started" ELSE "rebuild"
           /\ index' = IF texts = << >> THEN IndexFlatIP(DummyDim) ELSE NoIndex
    /\ Booted
    /\ err' = ""
    /\ path' = "rebuild"
    /\ startupEmbeds' = 0

\* embedder.encode(texts), IndexFlatIP(dim), index.add(emb)
RebuildEmbed ==
    /\ pc = "rebuild"
    /\ index' = IndexAdd(IndexFlatIP(EmbedDim), EmbedBatch(memories))
    /\ startupEmbeds' = 1
    /\ pc' = "built"
    /\ UNCHANGED <<disk, memories, turn, err, path, hist>>

\* the failure is swallowed and startup goes on with whatever index file
\* is on disk
RebuildEmbedFails_Degrade ==
    /\ pc = "rebuild"
    /\ startupEmbeds' = 1
    /\ pc' = "started"
    /\ index' = [d |-> EmbedDim, xb |-> indexFile.xb]
    /\ UNCHANGED <<disk, memories, turn, err, path, hist>>

\* embedder.encode(texts) raises: the import fails
RebuildEmbedFails ==
    /\ pc = "rebuild"
    /\ startupEmbeds' = 1
    /\ pc' = "raised_startup"
    /\ err' = "EmbeddingError"
    /\ UNCHANGED <<disk, live, turn, path, hist>>

\* faiss.write_index(index, INDEX_FILE)
WriteIndex ==
    /\ pc = "built"
    /\ indexFile' = [state |-> "ok", d |-> index.d, xb |-> index.xb]
    /\ dirty' = TRUE
    /\ pc' = "index_written"
    /\ UNCHANGED <<soulFile, idmapFile, live, turn, err, boot, halt, deleted, appended>>

\* json.dump(list(range(len(texts))), IDMAP_FILE.open("w"))
WriteIdMap ==
    /\ pc = "index_written"
    /\ idmapFile' = [state |-> "ok", ids |-> [i \in 1..Len(memories) |-> i - 1]]
    /\ dirty' = TRUE
    /\ pc' = "started"
    /\ UNCHANGED <<soulFile, indexFile, live, turn, err, boot, halt, deleted, appended>>

\* main(): the "[ready]" line, then the loop waits for input; the history
\* of the previous process is no longer looked at
Main ==
    /\ pc = "started"
    /\ pc' = "ready"
    /\ dirty' = FALSE
    /\ halt' = NoHalt
    /\ deleted' = FALSE
    /\ appended' = FALSE
    /\ UNCHANGED <<disk, live, turn, err, boot>>

\* -------------------------------------------------------------------- turn
\* the guard is missing: the query is always embedded and searched
Skips_Never(mems) == FALSE

\* retrieve_memories: "if not memories: return []"
Skips(mems) == mems = << >>

\* retrieve_memories(query, k): the label rows index.search can return,
\* << >> when the call is skipped
LabelsFrom(idx, mems, query, k) ==
    IF Skips(mems) THEN { << >> }
    ELSE SearchLabels(idx, Embed(query), k)

\* retrieve_memories(query, k): the possible results
RetrieveFrom(idx, mems, query, k) ==
    { Resolve(ls, mems, 1) : ls \in LabelsFrom(idx, mems, query, k) }

Retrieved(query, k) == RetrieveFrom(index, memories, query, k)

\* index.search asserts that the query has the dimension of the index
SearchRaises == ~Skips(memories) /\ index.d # EmbedDim

\* main(): "exit" / "quit" leaves the loop
InputExit(u) ==
    /\ pc = "ready"
    /\ Lower(u) \in {"exit", "quit"}
    /\ Stopped("exit")
    /\ UNCHANGED <<disk, dirty, appended>>

\* the query vector is also inserted into the index
InputRetrieve_AddsQuery(u, k) ==
    /\ pc = "ready"
    /\ Lower(u) \notin {"exit", "quit"}
    /\ Len(soulFile.lines) < MaxLog
    /\ user' = u
    /\ IF SearchRaises
       THEN /\ pc' = "raised_turn"
            /\ err' = "AssertionError"
            /\ labels' = << >>
            /\ ctx' = << >>
            /\ index' = index
       ELSE /\ pc' = "retrieved"
            /\ err' = ""
            /\ labels' \in LabelsFrom(index, memories, <<u>>, k)
            /\ ctx' = Resolve(labels', memories, 1)
            /\ index' = IF Skips(memories) THEN index
                        ELSE IndexAdd(index, <<Embed(<<u>>)>>)
    /\ topk' = k
    /\ reply' = ""
    /\ vec' = NoVec
    /\ UNCHANGED <<disk, memories, boot, hist>>

\* main(): ctx = retrieve_memories(user), with k = TOP_K
InputRetrieve(u, k) ==
    /\ pc = "ready"
    /\ Lower(u) \notin {"exit", "quit"}
    /\ Len(soulFile.lines) < MaxLog
    /\ user' = u
    /\ IF SearchRaises
       THEN /\ pc' = "raised_turn"
            /\ err' = "AssertionError"
            /\ labels' = << >>
            /\ ctx' = << >>
       ELSE /\ pc' = "retrieved"
            /\ err' = ""
            /\ labels' \in LabelsFrom(index, memories, <<u>>, k)
            /\ ctx' = Resolve(labels', memories, 1)
    /\ topk' = k
    /\ reply' = ""
    /\ vec' = NoVec
    /\ UNCHANGED <<disk, live, boot, hist>>

\* retrieve_memories: embedder.encode([query]) raises
InputRetrieveFails(u, k) ==
    /\ pc = "ready"
    /\ Lower(u) \notin {"exit", "quit"}
    /\ Len(soulFile.lines) < MaxLog
    /\ ~Skips(memories)
    /\ user' = u
    /\ topk' = k
    /\ pc' = "raised_turn"
    /\ err' = "EmbeddingError"
    /\ UNCHANGED <<disk, live, labels, ctx, reply, vec, boot, hist>>

\* the prompt is composed from ctx, then ollama_generate(prompt) returns
\* stdout or the "[Ghost Error]" value; ctx is not used again
Generate(r) ==
    /\ pc = "retrieved"
    /\ reply' = r
    /\ pc' = "replied"
    /\ labels' = << >>
    /\ ctx' = << >>
    /\ topk' = 0
    /\ UNCHANGED <<disk, live, user, vec, err, boot, hist>>

\* maybe_append_soul: the line is written to SOUL_FILE
AppendWrite ==
    /\ pc = "replied"
    /\ soulFile' = [exists |-> TRUE,
                    lines |-> Append(soulFile.lines,
                                     DumpEntry(EntryText(user, reply)))]
    /\ dirty' = TRUE
    /\ pc' = "logged"
    /\ UNCHANGED <<indexFile, idmapFile, live, turn, err, boot, halt, deleted, appended>>

\* maybe_append_soul: SOUL_FILE.open("a") or f.write raises
AppendWriteFails ==
    /\ pc = "replied"
    /\ pc' = "raised_append"
    /\ err' = "OSError"
    /\ UNCHANGED <<disk, live, turn, boot, hist>>

\* the text is embedded without waiting for the Log write
AppendEmbed_BeforeLog ==
    /\ pc \in {"replied", "logged"}
    /\ vec' = Embed(EntryText(user, reply))
    /\ pc' = "embedded"
    /\ UNCHANGED <<disk, live, user, topk, labels, ctx, reply, err, boot, hist>>

\* maybe_append_soul: vec = embedder.encode([entry["text"]])
AppendEmbed ==
    /\ pc = "logged"
    /\ vec' = Embed(EntryText(user, reply))
    /\ pc' = "embedded"
    /\ UNCHANGED <<disk, live, user, topk, labels, ctx, reply, err, boot, hist>>

\* maybe_append_soul: embedder.encode raises
AppendEmbedFails ==
    /\ pc = "logged"
    /\ pc' = "raised_append"
    /\ err' = "EmbeddingError"
    /\ UNCHANGED <<disk, live, turn, boot, hist>>

\* the grown index and its id map are written back after the insert
AppendAdd_Persists ==
    /\ pc = "embedded"
    /\ IF index.d = EmbedDim
       THEN /\ index' = IndexAdd(index, <<vec>>)
            /\ indexFile' = [state |-> "ok", d |-> index'.d, xb |-> index'.xb]
            /\ idmapFile' = [state |-> "ok",
                             ids |-> [i \in 1..Len(index'.xb) |-> i - 1]]
            /\ pc' = "added"
            /\ err' = ""
       ELSE /\ index' = index
            /\ UNCHANGED <<indexFile, idmapFile>>
            /\ pc' = "raised_append"
            /\ err' = "AssertionError"
    /\ UNCHANGED <<soulFile, memories, turn, boot, hist>>

\* maybe_append_soul: index.add(vec), which asserts d == index.d
AppendAdd ==
    /\ pc = "embedded"
    /\ IF index.d = EmbedDim
       THEN /\ index' = IndexAdd(index, <<vec>>)
            /\ pc' = "added"
            /\ err' = ""
       ELSE /\ index' = index
            /\ pc' = "raised_append"
            /\ err' = "AssertionError"
    /\ UNCHANGED <<disk, memories, turn, boot, hist>>

\* the id map is extended with the new position, the index file is not
AppendMemory_WritesIdMap ==
    /\ pc = "added"
    /\ memories' = Append(memories, EntryText(user, reply))
    /\ idmapFile' = [state |-> "ok", ids |-> [i \in 1..Len(memories') |-> i - 1]]
    /\ pc' = "ready"
    /\ user' = ""
    /\ ctx' = << >>
    /\ reply' = ""
    /\ vec' = NoVec
    /\ appended' = TRUE
    /\ UNCHANGED <<soulFile, indexFile, index, topk, labels, err, boot, halt,
                   dirty, deleted>>

\* maybe_append_soul: memories.append(entry["text"]); the turn is over and
\* its locals are dead
AppendMemory ==
    /\ pc = "added"
    /\ memories' = Append(memories, EntryText(user, reply))
    /\ pc' = "ready"
    /\ user' = ""
    /\ ctx' = << >>
    /\ reply' = ""
    /\ vec' = NoVec
    /\ appended' = TRUE
    /\ UNCHANGED <<disk, index, topk, labels, err, boot, halt, dirty, deleted>>

\* ------------------------------------------------------- stops and the disk
\* an exception other than KeyboardInterrupt leaves main(): the process ends
Die ==
    /\ pc \in {"raised_startup", "raised_turn", "raised_append"}
    /\ Stopped(IF InAppendWindow THEN "append_window" ELSE "other")
    /\ UNCHANGED <<disk, dirty, appended>>

\* the process is killed, or ctrl-c breaks the loop, between two steps
Crash ==
    /\ pc \notin {"off", "raised_startup", "raised_turn", "raised_append"}
    /\ Stopped(IF InAppendWindow THEN "append_window" ELSE "other")
    /\ appended' = (appended /\ pc # "started")
    /\ UNCHANGED <<disk, dirty>>

\* the process is killed inside faiss.write_index: a truncated index file
TornWriteIndex ==
    /\ pc = "built"
    /\ indexFile' = [state |-> "corrupt", d |-> 0, xb |-> << >>]
    /\ dirty' = TRUE
    /\ Stopped("other")
    /\ UNCHANGED <<soulFile, idmapFile, appended>>

\* the process is killed after IDMAP_FILE.open("w") truncated the file and
\* before json.dump's output is flushed
TornWriteIdMap ==
    /\ pc = "index_written"
    /\ idmapFile' = [state |-> "corrupt", ids |-> << >>]
    /\ dirty' = TRUE
    /\ Stopped("other")
    /\ UNCHANGED <<soulFile, indexFile, appended>>

\* the operator removes INDEX_FILE and IDMAP_FILE while no process runs
DeleteDerived ==
    /\ pc = "off"
    /\ ~deleted
    /\ halt.how # "none"
    /\ indexFile' = NoFile
    /\ idmapFile' = NoIdMap
    /\ deleted' = TRUE
    /\ dirty' = TRUE
    /\ UNCHANGED <<soulFile, pc, live, turn, err, boot, halt, appended>>

Next ==
    \/ StartLoadRaises
    \/ StartReuseRaises
    \/ StartReuse
    \/ StartRebuild
    \/ RebuildEmbed
    \/ RebuildEmbedFails
    \/ WriteIndex
    \/ WriteIdMap
    \/ Main
    \/ \E u \in UserInputs : InputExit(u)
    \/ \E u \in UserInputs : \E k \in 1..MaxK : InputRetrieve(u, k)
    \/ \E u \in UserInputs : \E k \in 1..MaxK : InputRetrieveFails(u, k)
    \/ \E r \in Replies \cup GhostErrors : Generate(r)
    \/ AppendWrite
    \/ AppendWriteFails
    \/ AppendEmbed
    \/ AppendEmbedFails
    \/ AppendAdd
    \/ AppendMemory
    \/ Die
    \/ Crash
    \/ TornWriteIndex
    \/ TornWriteIdMap
    \/ DeleteDerived

Spec == Init /\ [][Next]_vars

\* a memory directory left in any state: the reuse test of
\* _load_or_build_index applied to every combination of persisted files
DiskSouls ==
    { << >>,
      << ObjLine(<<"seed">>), BlankLine, RawLine(<<"plain">>) >>,
      << NonObjLine >> }

DiskIndexes ==
    { << >>,
      << Embed(<<"seed">>) >>,
      << Embed(<<"plain">>) >>,
      << Embed(<<"seed">>), Embed(<<"plain">>) >> }

InitDisk ==
    /\ InitCommon
    /\ \E ls \in DiskSouls : soulFile = [exists |-> TRUE, lines |-> ls]
    /\ \/ indexFile = NoFile
       \/ indexFile = [state |-> "corrupt", d |-> 0, xb |-> << >>]
       \/ \E xb \in DiskIndexes :
             indexFile = [state |-> "ok", d |-> EmbedDim, xb |-> xb]
    /\ \/ idmapFile = NoIdMap
       \/ idmapFile = [state |-> "corrupt", ids |-> << >>]
       \/ \E n \in 0..MaxLog :
             idmapFile = [state |-> "ok", ids |-> [i \in 1..n |-> i - 1]]

SpecDisk == InitDisk /\ [][Next]_vars

\* ------------------------------------------------------------------ claims
LogTexts == LoadTextsOf(soulFile.lines)

\* no append is in progress: the process waits, or an operation has returned
\* or raised
BetweenOperations ==
    pc \in {"started", "ready", "retrieved", "replied", "raised_turn",
            "raised_append"}

Aligned ==
    /\ Len(index.xb) = Len(LogTexts)
    /\ \A i \in 1..Len(LogTexts) : index.xb[i] = Embed(LogTexts[i])

\* C1: between operations, from any startup state and after any sequence of
\* appends, the live index has as many vectors as the Log has records and
\* position i holds the vector of Log record i.
C1_Alignment == BetweenOperations => Aligned

\* C2: when the process stopped inside append after the Log line was written
\* and before the vector was inserted, the persisted id map does not match
\* the Log, the next startup rebuilds, and the rebuilt index and text
\* sequence end with the interrupted record, which retrieve can return.
C2_CrashConsistency ==
    /\ (pc = "off" /\ halt.how = "append_window"
          /\ indexFile.state # "absent" /\ idmapFile.state = "ok") =>
          Len(idmapFile.ids) < Len(LogTexts)
    /\ (pc = "started" /\ halt.how = "append_window") =>
          /\ path = "rebuild"
          /\ memories = LogTexts
          /\ memories # << >>
          /\ memories[Len(memories)] = halt.rec
          /\ index.d = EmbedDim
          /\ index.xb = EmbedBatch(memories)
          /\ \A k \in 1..MaxK : \E res \in Retrieved(halt.rec, k) :
                \E i \in 1..Len(res) : res[i] = halt.rec

\* C2 witness: a restart after such a stop, on a store that had persisted
\* files to compare against
C2_Witness ==
    /\ pc = "started"
    /\ halt.how = "append_window"
    /\ ~deleted
    /\ Len(memories) >= 2

\* C3: retrieve returns at most k texts and at most as many texts as the
\* store holds memories.
C3_KBound ==
    pc = "retrieved" => (Len(ctx) <= topk /\ Len(ctx) <= Len(memories))

\* C4: on a store with zero memories retrieve returns the empty sequence and
\* append succeeds: it raises nothing of its own (only a failing Log write or
\* a failing embedding provider can stop it).
C4_EmptyStoreWorks ==
    /\ (pc = "retrieved" /\ memories = << >>) => ctx = << >>
    /\ (pc = "raised_append" /\ memories = << >>) =>
          err \in {"OSError", "EmbeddingError"}

\* the startup step of a process whose persisted files can all be read
ReadableStart ==
    /\ pc = "off" /\ pc' # "off"
    /\ ~(soulFile.exists /\ LoadRaises(soulFile.lines))
    /\ indexFile.state # "corrupt"
    /\ idmapFile.state # "corrupt"

PersistedMatch ==
    /\ indexFile.state = "ok"
    /\ idmapFile.state = "ok"
    /\ Len(idmapFile.ids) = Len(LogTexts)

\* C5: at startup the persisted index is loaded and returned unchanged if and
\* only if the index file and the id map both exist and the id map has as
\* many entries as the Log has records; otherwise the index is rebuilt from
\* the Log.
C5_ReuseDecision ==
    /\ [][ReadableStart =>
            /\ PersistedMatch =>
                  /\ path' = "reuse"
                  /\ pc' = "started"
                  /\ index'.xb = indexFile.xb
                  /\ memories' = LogTexts
                  /\ UNCHANGED disk
            /\ ~PersistedMatch => path' = "rebuild"]_vars
    /\ []((pc = "started" /\ path = "rebuild") =>
            /\ memories = LogTexts
            /\ index.xb = EmbedBatch(memories))
    /\ []((pc = "started" /\ path = "reuse") =>
            /\ indexFile.state = "ok"
            /\ idmapFile.state = "ok"
            /\ Len(idmapFile.ids) = Len(memories)
            /\ index.xb = indexFile.xb)

\* C5 witness: a rebuild was chosen although both files exist, because the
\* id map is longer than the Log
C5_Witness ==
    /\ pc \in {"rebuild", "started"}
    /\ path = "rebuild"
    /\ indexFile.state = "ok"
    /\ idmapFile.state = "ok"
    /\ Len(idmapFile.ids) > Len(memories)

\* C6: an id map or index file that exists but cannot be read never aborts
\* startup: no read or parse failure of a persisted file reaches the caller.
C6_SelfHealing ==
    pc = "raised_startup" => err \notin {"JSONDecodeError", "RuntimeError"}

\* C7: a restart against the files left by a completed startup, with nothing
\* written since, takes the reuse path, makes no embedding call and yields
\* the live index and text sequence the process had before the restart.
C7_FreshnessIdempotence ==
    (pc = "started" /\ ~dirty) =>
        /\ path = "reuse"
        /\ startupEmbeds = 0
        /\ index.xb = halt.index.xb
        /\ memories = halt.mems

\* C8: after startup and successful appends, deleting the persisted index and
\* id map and restarting rebuilds the vector sequence and the text sequence
\* the process had before, so every retrieve returns the same texts.
C8_RebuildCorrectness ==
    (pc = "started" /\ deleted /\ halt.how = "exit") =>
        /\ path = "rebuild"
        /\ index = halt.index
        /\ memories = halt.mems
        /\ \A u \in UserInputs : \A k \in 1..MaxK :
              Retrieved(<<u>>, k) = RetrieveFrom(halt.index, halt.mems, <<u>>, k)

\* C8 witness: such a restart of a store that holds an appended record
C8_Witness ==
    /\ pc = "started"
    /\ deleted
    /\ halt.how = "exit"
    /\ Len(memories) >= 2
    /\ memories[Len(memories)] \in
          { EntryText(u, r) : u \in UserInputs, r \in Replies \cup GhostErrors }

AppendPcs == {"replied", "logged", "embedded", "added"}

LastLineIsEntry ==
    /\ soulFile.exists
    /\ soulFile.lines # << >>
    /\ soulFile.lines[Len(soulFile.lines)] = DumpEntry(EntryText(user, reply))

\* C9: append writes the record to the Log before it embeds the text or
\* touches the live index or the text sequence; a failing Log write leaves
\* the index and the text sequence unchanged and reaches the caller.
C9_AppendOrdering ==
    /\ [][(pc \in AppendPcs /\ pc' # "off"
            /\ (vec' # vec \/ index' # index \/ memories' # memories)) =>
              (pc # "replied" /\ LastLineIsEntry /\ soulFile' = soulFile)]_vars
    /\ [][(pc = "replied" /\ pc' # "off" /\ soulFile' = soulFile) =>
              /\ pc' = "raised_append"
              /\ err' = "OSError"
              /\ UNCHANGED live]_vars
    /\ [](pc \in {"logged", "embedded", "added"} => LastLineIsEntry)

\* C9 witness: the Log write of an append on a non-empty store failed
C9_Witness ==
    /\ pc = "raised_append"
    /\ err = "OSError"
    /\ memories # << >>
    /\ memories = LogTexts

\* C10: an embedding failure during append leaves the Log, the live index
\* and the text sequence as they were before the append, still aligned.
C10_EmbedFailureAborts ==
    (pc = "raised_append" /\ err = "EmbeddingError") =>
        /\ LogTexts = memories
        /\ Aligned


\* C11: on a store with zero memories retrieve returns the empty sequence for
\* every query and k, and calls neither the embedding provider nor the index
\* search: no label row exists and no failure of either can end the turn.
C11_EmptyStoreRetrieve ==
    /\ (pc = "retrieved" /\ memories = << >>) =>
          (ctx = << >> /\ labels = << >>)
    /\ pc = "raised_turn" => memories # << >>

\* C11 witness: a retrieve with the largest k has returned on an empty store
C11_Witness ==
    /\ pc = "retrieved"
    /\ memories = << >>
    /\ topk = MaxK
    /\ ctx = << >>

\* the text whose append has completed last in this process
LastAppended == memories[Len(memories)]

AppendCompleted == pc = "ready" /\ dirty /\ memories # << >>

SelfScore(t) == Score(Embed(t), Embed(t))

\* no stored text other than t embeds as close to t as t itself
NoRival(t) ==
    \A i \in 1..Len(memories) :
        memories[i] # t => Score(Embed(t), Embed(memories[i])) < SelfScore(t)

Includes(res, t) == \E i \in 1..Len(res) : res[i] = t

\* C12 as claimed: after append(T) completes, retrieve(T, k) includes T for
\* every k >= 1, whatever ties T's vector has with other stored vectors.
C12_AppendThenRetrieve ==
    AppendCompleted =>
        \A k \in 1..MaxK : \A res \in Retrieved(LastAppended, k) :
            Includes(res, LastAppended)

\* C12 amended: after append(T) completes, retrieve(T, k) includes T for
\* every k >= 1, provided every stored record with a text other than T scores
\* strictly lower against T's embedding than T's own vector.
C12_AppendThenRetrieveStrict ==
    (AppendCompleted /\ NoRival(LastAppended)) =>
        \A k \in 1..MaxK : \A res \in Retrieved(LastAppended, k) :
            Includes(res, LastAppended)

\* C12 witness: an append has completed on a store that held other records
C12_Witness ==
    /\ AppendCompleted
    /\ Len(memories) >= 2
    /\ Len(index.xb) = Len(memories)
    /\ NoRival(LastAppended)


StartupPcs == {"rebuild", "built", "index_written", "started"}

\* C13: load returns one text per non-blank line of the Log file, in file
\* order; a line that is not JSON, or whose JSON is not an object, yields the
\* raw line as its text and never makes load fail; an absent file yields the
\* empty sequence.
C13_LoadKeepsEveryRecord ==
    /\ pc = "raised_startup" => err # "AttributeError"
    /\ pc \in StartupPcs =>
          /\ Len(memories) = Len(Stripped(soulFile.lines))
          /\ \A i \in 1..Len(memories) :
                Stripped(soulFile.lines)[i].kind \in {"obj", "raw", "nonobj"} =>
                    memories[i] = Stripped(soulFile.lines)[i].text
          /\ ~soulFile.exists => memories = << >>


\* C14: once the memories of a turn are retrieved, the turn prints a reply
\* whatever the generation provider does (a failure is the "[Ghost Error]"
\* reply value, never an exception), then calls append with the record of
\* that prompt and reply, and the append stores it: nothing but a failing
\* Log write or a failing embedding provider stops the append.
C14_TurnRepliesAndAppends ==
    /\ [](pc = "replied" => reply \in Replies \cup GhostErrors)
    /\ [][(pc = "retrieved" /\ pc' # "off") =>
            (pc' = "replied" /\ user' = user)]_vars
    /\ [][(pc = "replied" /\ pc' # "off") =>
            \/ /\ pc' = "logged"
               /\ soulFile'.lines =
                     Append(soulFile.lines, DumpEntry(EntryText(user, reply)))
            \/ /\ pc' = "raised_append"
               /\ err' = "OSError"]_vars
    /\ [][(pc \in {"logged", "embedded", "added"} /\ pc' = "raised_append") =>
            err' = "EmbeddingError"]_vars

\* C15: a startup that took the rebuild path has, for every Log length n
\* (n = 0 included), written an index file of exactly n vectors and an id
\* map [0, ..., n-1] by the time it completes.
C15_RebuildPersists ==
    (pc = "started" /\ path = "rebuild") =>
        /\ indexFile.state = "ok"
        /\ Len(indexFile.xb) = Len(LogTexts)
        /\ idmapFile.state = "ok"
        /\ idmapFile.ids = [i \in 1..Len(LogTexts) |-> i - 1]

InRange(i) == 0 <= i /\ i < Len(memories)

InRangeLabels == SelectSeq(labels, InRange)

\* C16: every text retrieve returns is the text at an in-range searched
\* position, in search order; positions at or past the end and the negative
\* "no neighbour" position contribute nothing.
C16_OutOfRangeFiltered ==
    pc = "retrieved" =>
        ctx = [j \in 1..Len(InRangeLabels) |-> memories[InRangeLabels[j] + 1]]


\* C17: when the embedding provider fails while startup is rebuilding, the
\* import raises and the process ends without reaching the loop: the step
\* out of the rebuild either produces the index of the whole batch or
\* raises, a raised startup can only end, and neither step touches the
\* persisted index file or id map, which stay as they were when the rebuild
\* was entered.
C17_RebuildEmbedFailureFatal ==
    /\ [][pc = "rebuild" =>
            /\ UNCHANGED disk
            /\ \/ pc' = "built" /\ index'.xb = EmbedBatch(memories)
               \/ pc' = "raised_startup" /\ err' = "EmbeddingError"
               \/ pc' = "off"]_vars
    /\ [][pc = "raised_startup" => (pc' = "off" /\ UNCHANGED disk)]_vars
    /\ [][(pc = "off" /\ pc' = "rebuild") => UNCHANGED disk]_vars

\* C17 witness: the provider failed in a rebuild that had an older index
\* file and id map on disk
C17_Witness ==
    /\ pc = "raised_startup"
    /\ err = "EmbeddingError"
    /\ indexFile.state = "ok"
    /\ idmapFile.state = "ok"
    /\ Len(idmapFile.ids) < Len(LogTexts)

\* C18: a retrieve call, returning or raising, for every query and k leaves
\* the Log, the persisted index file and id map, the live index and the
\* text sequence as they were.
C18_RetrievePureRead ==
    [][(pc = "ready" /\ pc' \in {"retrieved", "raised_turn"}) =>
          UNCHANGED <<soulFile, indexFile, idmapFile, index, memories>>]_vars

\* C18 witness: a retrieve that searched the index and returned texts
C18_Witness ==
    /\ pc = "retrieved"
    /\ memories # << >>
    /\ ctx # << >>
    /\ Len(index.xb) = Len(memories)

\* C19: in runs of startups, appends, crashes at any step and torn writes,
\* on a Log that only grows by append, a startup that took the reuse path
\* loaded an index of exactly len(Log) vectors, position i holding the
\* vector of Log record i.
C19_ReuseImpliesMatch ==
    (pc = "started" /\ path = "reuse") =>
        /\ index.d = EmbedDim
        /\ Len(index.xb) = Len(LogTexts)
        /\ \A i \in 1..Len(LogTexts) : index.xb[i] = Embed(LogTexts[i])
        /\ memories = LogTexts

\* C19 witness: a reuse after a killed process, on a Log whose last record
\* was written by append
C19_Witness ==
    /\ pc = "started"
    /\ path = "reuse"
    /\ Len(memories) >= 2
    /\ halt.how = "other"
    /\ \E u \in UserInputs : \E r \in Replies \cup GhostErrors :
          memories[Len(memories)] = EntryText(u, r)

\* the reuse test applied to the files as they are now
IdMapMatchesLog ==
    idmapFile.state = "ok" /\ Len(idmapFile.ids) = Len(LogTexts)

\* C20: no step of append changes the persisted index file or the id map;
\* so from a completed append until the next startup writes them again the
\* id map does not have the length of the Log, and that startup takes the
\* rebuild path and embeds the whole Log again.
C20_AppendLeavesDerivedFiles ==
    /\ [][(pc \in AppendPcs) =>
            (indexFile' = indexFile /\ idmapFile' = idmapFile)]_vars
    /\ []((appended /\ pc # "started") => ~IdMapMatchesLog)
    /\ []((appended /\ pc = "started") =>
            /\ path = "rebuild"
            /\ startupEmbeds = 1
            /\ index.xb = EmbedBatch(LogTexts))

\* C20 witness: the startup after a process that completed an append
C20_Witness ==
    /\ pc = "started"
    /\ appended
    /\ halt.how = "exit"
    /\ Len(memories) >= 2

====
